---- MODULE Spec2Model ----
(***************************************************************************)
(* A model of termlib.py: the TerminalContext handle (mode controller and  *)
(* query engine) and the two scoped acquisition helpers.                   *)
(*                                                                         *)
(* The program is single threaded.  The caller's control state is `pc`     *)
(* (the statement of the method being run), `stack` (the with-scopes that  *)
(* are open, innermost last) and `exc` (an exception that is propagating). *)
(* The operating system side is one terminal device (`devAttr`) and the    *)
(* descriptor the handle holds (`fdKind`, `fdOpen`).                       *)
(*                                                                         *)
(* Bytes are numbers 0..255, byte strings and text are sequences.          *)
(***************************************************************************)
EXTENDS Integers, Sequences, FiniteSets, TLC

VARIABLES
    fdKind,        \* "tty" or "file": what os.isatty(fd) sees
    fdOpen,        \* the descriptor is open
    devAttr,       \* the attribute set of the terminal device
    constructed,   \* a TerminalContext object exists
    via,           \* observer: how it was acquired: "none", "TerminalContext",
                   \* "terminal_context" or "cterminal_context"
    close_fd,      \* self.close_fd
    is_cbreak,     \* self.is_cbreak
    initial_attr,  \* self._initial_attr, <<>> while unset, else <<attr>>
    acqAttr,       \* observer: the device's attributes when the handle was acquired
    closes,        \* observer: number of close() calls made on the handle
    stack,         \* open with-scopes, innermost last
    exc,           \* "none", or the exception propagating
    pc,            \* the statement the caller is at
    q,             \* locals of the running query / read call
    w,             \* locals of the running write call
    gs,            \* locals of the running get_size call
    qc,            \* locals of the running query_color call, and the slots
                   \* whose reply the terminal still owes
    undone,        \* observer: number of calls of undo callbacks made so far
    reuse,         \* the file that got the handle's descriptor number after the
                   \* handle had released it
    calls,         \* observer: OS calls made by the operation that ran last
    out,           \* observer: bytes the device accepted during that operation
    ret            \* the value the operation returned, <<>> wrapped: <<value>>

vars == <<fdKind, fdOpen, devAttr, constructed, via, close_fd, is_cbreak, initial_attr,
          acqAttr, closes, stack, exc, pc, q, w, gs, qc, undone, reuse,
          calls, out, ret>>

(***************************************************************************)
(* Bounds of the model.                                                    *)
(***************************************************************************)
MaxDepth == 3
MaxLen == 3
MaxCloses == 2
MaxUndos == 2

----------------------------------------------------------------------------
(***************************************************************************)
(* Terminal attributes.  tty.setcbreak clears ECHO and ICANON and sets     *)
(* VMIN = 1, VTIME = 0; everything else is kept.                           *)
(***************************************************************************)
Sane == [echo |-> TRUE, icanon |-> TRUE, vmin |-> 1, vtime |-> 0]

NoEcho == [echo |-> FALSE, icanon |-> TRUE, vmin |-> 1, vtime |-> 0]

Timed == [echo |-> FALSE, icanon |-> FALSE, vmin |-> 0, vtime |-> 1]

\* the attribute set of the terminal when the program starts
InitAttrs == {Sane}

\* attribute sets a caller applies as a custom terminal state
CustomAttrs == {NoEcho, Timed}

setcbreak(a) == [a EXCEPT !.echo = FALSE, !.icanon = FALSE, !.vmin = 1, !.vtime = 0]

isatty == fdKind = "tty"

\* tcgetattr(self.fd) on an open descriptor
termios_attributes == devAttr


----------------------------------------------------------------------------
(***************************************************************************)
(* Text and bytes.  A payload is text (code points) or bytes; text is      *)
(* encoded as UTF-8 before it is written.                                  *)
(***************************************************************************)
RECURSIVE encode_utf8(_)
encode_utf8(s) ==
    IF s = <<>> THEN <<>>
    ELSE LET c == Head(s)
         IN  (IF c < 128 THEN <<c>>
              ELSE <<192 + (c \div 64), 128 + (c % 64)>>) \o encode_utf8(Tail(s))

\* s if isinstance(s, bytes) else s.encode('utf-8')
to_bytes(s) == IF s.type = "bytes" THEN s.val ELSE encode_utf8(s.val)

SeqsUpTo(S, n) == UNION {[1..k -> S] : k \in 0..n}

\* payloads of the write loop: text over 'a' and e-acute (two bytes in
\* UTF-8), bytes over 'a' and 0xC3
Payloads ==
    {[type |-> "str", val |-> v] : v \in SeqsUpTo({97, 233}, MaxLen)}
    \cup {[type |-> "bytes", val |-> v] : v \in SeqsUpTo({97, 195}, MaxLen)}

\* payloads of a caller that is exercising the mode controller
CoreRequests == {[type |-> "str", val |-> <<233>>], [type |-> "bytes", val |-> <<97, 98, 99>>]}

\* what the terminal has ready for such a caller when the descriptor is read
CoreTerm == {<<>>, <<97, 98>>}

Take(s, n) == SubSeq(s, 1, IF n < Len(s) THEN n ELSE Len(s))

----------------------------------------------------------------------------
Q0 == [op |-> "none", caller |-> "none", req |-> <<>>, timeout |-> "none",
       amount |-> 0, term |-> {}, can_read |-> <<>>, preAttr |-> <<>>,
       preCb |-> FALSE, preDepth |-> 0]

W0 == [payload |-> <<>>, data |-> <<>>, sent |-> 0]

QC0 == [slot |-> <<>>, late |-> {}, report |-> <<>>]

\* no file has the released number; hits are the OS calls of the handle
\* that reached such a file
R0 == [open |-> FALSE, kind |-> "none", attr |-> <<>>, hits |-> {}]

\* the caller is between two statements and nothing is propagating
Ready == pc = "idle" /\ exc = "none"

\* the OS calls of a query, read or write call are logged while it runs
Log(names) == IF pc = "idle" THEN <<>> ELSE calls \o names

Top == stack[Len(stack)]

Pop == SubSeq(stack, 1, Len(stack) - 1)

CtxFrame == [kind |-> "ctx", noop |-> FALSE, tattr |-> <<>>, pre |-> <<>>]

CbreakFrame(noop, tattr, pre) ==
    [kind |-> "cbreak", noop |-> noop, tattr |-> tattr, pre |-> pre]

----------------------------------------------------------------------------
(***************************************************************************)
(* TerminalContext.__init__                                                *)
(***************************************************************************)
\* __init__ without the terminal check
init_rejects_never == FALSE

\* line 14: the terminal check comes first
init_rejects == ~isatty

\* line 19: the attribute set stored as _initial_attr
init_snapshot == termios_attributes

\* lines 16-19, on a terminal
init_fields(cf, how) ==
    /\ constructed' = TRUE
    /\ via' = how
    /\ close_fd' = cf
    /\ is_cbreak' = FALSE
    /\ initial_attr' = <<init_snapshot>>
    /\ acqAttr' = <<devAttr>>

\* TerminalContext(fd, close_fd) called directly
Construct ==
    /\ Ready /\ ~constructed
    /\ \E cf \in BOOLEAN :
        IF init_rejects
        THEN /\ exc' = "TypeError"
             /\ calls' = <<"isatty">>
             /\ UNCHANGED <<constructed, via, close_fd, is_cbreak, initial_attr, acqAttr>>
        ELSE /\ init_fields(cf, "TerminalContext")
             /\ calls' = <<"isatty", "tcgetattr">>
             /\ exc' = exc
    /\ UNCHANGED <<reuse, undone, qc, fdKind, fdOpen, devAttr, closes, stack, pc, q,
                   w, gs, out, ret>>

\* with terminal_context(fd) as t: the handle does not own fd
terminal_context_enter ==
    /\ Ready /\ ~constructed /\ Len(stack) < MaxDepth
    /\ IF init_rejects
       THEN /\ exc' = "TypeError"
            /\ calls' = <<"isatty">>
            /\ UNCHANGED <<constructed, via, close_fd, is_cbreak, initial_attr, acqAttr, stack>>
       ELSE /\ init_fields(FALSE, "terminal_context")
            /\ calls' = <<"isatty", "tcgetattr">>
            /\ stack' = Append(stack, CtxFrame)
            /\ exc' = exc
    /\ UNCHANGED <<reuse, undone, qc, fdKind, fdOpen, devAttr, closes, pc, q, w, gs,
                   out, ret>>

\* with cterminal_context() as t: from_cterm opens the controlling terminal
\* and the handle owns the new descriptor
cterminal_context_enter ==
    /\ Ready /\ ~constructed /\ Len(stack) < MaxDepth
    /\ fdKind' = "tty"
    /\ fdOpen' = TRUE
    /\ init_fields(TRUE, "cterminal_context")
    /\ calls' = <<"open", "isatty", "tcgetattr">>
    /\ stack' = Append(stack, CtxFrame)
    /\ UNCHANGED <<reuse, undone, qc, devAttr, closes, exc, pc, q, w, gs, out, ret>>

----------------------------------------------------------------------------
(***************************************************************************)
(* TerminalContext.close                                                   *)
(***************************************************************************)
\* close() applying the snapshot of the cbreak scope that is open
close_attr_snapshot ==
    IF \E i \in 1..Len(stack) : stack[i].tattr # <<>>
    THEN Head(stack[CHOOSE i \in 1..Len(stack) : stack[i].tattr # <<>>].tattr)
    ELSE Head(initial_attr)

\* line 27: the attribute set close() applies
close_attr == Head(initial_attr)

\* close() closing the descriptor whoever owns it
close_releases_always == TRUE

\* line 28: the descriptor is closed only if the handle owns it
close_releases == close_fd

\* lines 27-29: the calls go to whatever file has the number self.fd.
\* tcsetattr raises on a number that is not open and on a file that is not
\* a terminal, and then os.close is not reached
close_body ==
    /\ closes' = closes + 1
    /\ IF fdOpen
       THEN /\ devAttr' = close_attr
            /\ fdOpen' = ~close_releases
            /\ calls' = Log(IF close_releases THEN <<"tcsetattr", "close">>
                                               ELSE <<"tcsetattr">>)
            /\ exc' = exc
            /\ reuse' = reuse
       ELSE IF reuse.open /\ reuse.kind = "tty"
       THEN /\ reuse' = [reuse EXCEPT
                            !.attr = <<close_attr>>,
                            !.open = ~close_releases,
                            !.hits = @ \cup (IF close_releases THEN {"tcsetattr", "close"}
                                                               ELSE {"tcsetattr"})]
            /\ calls' = Log(IF close_releases THEN <<"tcsetattr", "close">>
                                               ELSE <<"tcsetattr">>)
            /\ UNCHANGED <<devAttr, fdOpen, exc>>
       ELSE /\ exc' = "Error"
            /\ calls' = Log(<<"tcsetattr">>)
            /\ UNCHANGED <<devAttr, fdOpen, reuse>>

\* t.close() called by the caller
close ==
    /\ Ready /\ constructed /\ closes < MaxCloses
    /\ close_body
    /\ UNCHANGED <<undone, qc, fdKind, constructed, via, close_fd, is_cbreak,
                   initial_attr, acqAttr, stack, pc, q, w, gs, out, ret>>

\* the finally clause of terminal_context / cterminal_context
context_exit ==
    /\ pc = "idle" /\ stack # <<>> /\ Top.kind = "ctx"
    /\ close_body
    /\ stack' = Pop
    /\ UNCHANGED <<undone, qc, fdKind, constructed, via, close_fd, is_cbreak,
                   initial_attr, acqAttr, pc, q, w, gs, out, ret>>


\* the program opens another file after the handle has released its
\* descriptor; the OS gives out the lowest free number, here the one the
\* handle still has in self.fd
Reopen ==
    /\ Ready /\ constructed /\ ~fdOpen /\ closes >= 1
    /\ ~reuse.open
    /\ \E k \in {"tty", "file"}, a \in CustomAttrs :
          reuse' = [reuse EXCEPT !.open = TRUE, !.kind = k, !.attr = <<a>>]
    /\ UNCHANGED <<fdKind, fdOpen, devAttr, constructed, via, close_fd, is_cbreak,
                   initial_attr, acqAttr, closes, stack, exc, pc, q, w, gs, qc,
                   undone, calls, out, ret>>

----------------------------------------------------------------------------
(***************************************************************************)
(* TerminalContext.cbreak_mode, a generator-based context manager.  The    *)
(* same code runs for a with-statement of the caller (pc = "idle") and for *)
(* the with-statement inside query and read (pc = "q_enter", "q_exit").    *)
(***************************************************************************)
\* cbreak_mode without the re-entrance test
entry_is_noop_never == FALSE

\* line 44: an entry made while the flag is set does nothing
entry_is_noop == is_cbreak

\* line 47: the snapshot taken at entry
entry_snapshot == termios_attributes

\* the finally clause applying the construction-time attributes
exit_attr_initial(frame) == Head(initial_attr)

\* line 53: the attribute set the finally clause applies
exit_attr(frame) == Head(frame.tattr)

\* the finally clause leaving the flag set
exit_flag_kept == TRUE

\* line 54: the flag after the finally clause has run
exit_flag == FALSE

\* where the caller continues after the entry
AfterEntry(raised) ==
    IF pc = "idle" THEN "idle"
    ELSE IF raised THEN "q_ret"
    ELSE IF q.op = "read" THEN "q_select" ELSE "q_write"

cbreak_mode_enter ==
    /\ \/ Ready /\ constructed /\ Len(stack) < MaxDepth
       \/ pc = "q_enter"
    /\ IF entry_is_noop
       THEN \* lines 44-45
            /\ stack' = Append(stack, CbreakFrame(TRUE, <<>>, <<devAttr>>))
            /\ calls' = Log(<<>>)
            /\ pc' = AfterEntry(FALSE)
            /\ UNCHANGED <<devAttr, is_cbreak, exc>>
       ELSE IF fdOpen
       THEN \* lines 47-51
            /\ stack' = Append(stack, CbreakFrame(FALSE, <<entry_snapshot>>, <<devAttr>>))
            /\ devAttr' = setcbreak(devAttr)
            /\ is_cbreak' = TRUE
            /\ calls' = Log(<<"tcgetattr", "setcbreak">>)
            /\ pc' = AfterEntry(FALSE)
            /\ exc' = exc
       ELSE \* line 47 raises: tcgetattr on a descriptor that is not open
            /\ exc' = "Error"
            /\ calls' = Log(<<"tcgetattr">>)
            /\ pc' = AfterEntry(TRUE)
            /\ UNCHANGED <<devAttr, is_cbreak, stack>>
    /\ UNCHANGED <<reuse, undone, qc, fdKind, fdOpen, constructed, via, close_fd,
                   initial_attr, acqAttr, closes, q, w, gs, out, ret>>

\* the scope is left: by the body completing or returning, or by an
\* exception propagating through the yield
cbreak_mode_exit ==
    /\ pc \in {"idle", "q_exit"}
    /\ stack # <<>> /\ Top.kind = "cbreak"
    /\ stack' = Pop
    /\ pc' = IF pc = "idle" THEN "idle" ELSE "q_ret"
    /\ IF Top.noop
       THEN \* lines 45-46
            /\ calls' = Log(<<>>)
            /\ UNCHANGED <<devAttr, is_cbreak, exc>>
       ELSE IF fdOpen
       THEN \* lines 53-54
            /\ devAttr' = exit_attr(Top)
            /\ is_cbreak' = exit_flag
            /\ calls' = Log(<<"tcsetattr">>)
            /\ exc' = exc
       ELSE \* line 53 raises, line 54 is not reached
            /\ exc' = "Error"
            /\ calls' = Log(<<"tcsetattr">>)
            /\ UNCHANGED <<devAttr, is_cbreak>>
    /\ UNCHANGED <<reuse, undone, qc, fdKind, fdOpen, constructed, via, close_fd,
                   initial_attr, acqAttr, closes, q, w, gs, out, ret>>

----------------------------------------------------------------------------
(***************************************************************************)
(* The caller's own statements inside and between scopes.                  *)
(***************************************************************************)
\* the body of a scope raises
Raise ==
    /\ Ready /\ stack # <<>>
    /\ exc' = "Error"
    /\ UNCHANGED <<reuse, undone, qc, fdKind, fdOpen, devAttr, constructed, via,
                   close_fd, is_cbreak, initial_attr, acqAttr, closes, stack, pc, q,
                   w, gs, calls, out, ret>>

\* the exception has left the outermost scope and the caller handles it
Catch ==
    /\ pc = "idle" /\ exc # "none" /\ stack = <<>>
    /\ exc' = "none"
    /\ UNCHANGED <<reuse, undone, qc, fdKind, fdOpen, devAttr, constructed, via,
                   close_fd, is_cbreak, initial_attr, acqAttr, closes, stack, pc, q,
                   w, gs, calls, out, ret>>

\* the caller applies a terminal state of its own (what custom_state is for)
SetAttr ==
    /\ Ready /\ constructed /\ fdOpen
    /\ \E a \in CustomAttrs : a # devAttr /\ devAttr' = a
    /\ UNCHANGED <<reuse, undone, qc, fdKind, fdOpen, constructed, via, close_fd,
                   is_cbreak, initial_attr, acqAttr, closes, stack, exc, pc, q, w, gs,
                   calls, out, ret>>

----------------------------------------------------------------------------
(***************************************************************************)
(* TerminalContext.custom_state.  undo is None, <<>> here, or a callback   *)
(* of the caller; the callback modelled is the one the docstring speaks    *)
(* of, which sets the terminal back to the state before the scope: <<a>>.  *)
(***************************************************************************)
CustomFrame(undo) ==
    [kind |-> "custom", noop |-> FALSE, tattr |-> <<>>, pre |-> <<devAttr>>, undo |-> undo]

\* with t.custom_state(undo): lines 62-63, the body starts, nothing is done
custom_state_enter ==
    /\ Ready /\ constructed /\ Len(stack) < MaxDepth
    /\ \E undo \in {<<>>, <<devAttr>>} :
          /\ (undo # <<>> => undone < MaxUndos)
          /\ stack' = Append(stack, CustomFrame(undo))
    /\ UNCHANGED <<reuse, fdKind, fdOpen, devAttr, constructed, via, close_fd,
                   is_cbreak, initial_attr, acqAttr, closes, exc, pc, q, w, gs, qc,
                   undone, calls, out, ret>>

\* the callback called whether or not the body raised
runs_undo_unless_raised(undo) == undo # <<>> /\ exc = "none"

\* line 66: if undo
runs_undo(undo) == undo # <<>>

\* lines 64-67: the finally clause, reached when the body completes and when
\* an exception propagates out of it
custom_state_exit ==
    /\ pc = "idle" /\ stack # <<>> /\ Top.kind = "custom"
    /\ stack' = Pop
    /\ IF runs_undo(Top.undo)
       THEN /\ devAttr' = Head(Top.undo)
            /\ undone' = undone + 1
       ELSE UNCHANGED <<devAttr, undone>>
    /\ UNCHANGED <<reuse, fdKind, fdOpen, constructed, via, close_fd, is_cbreak,
                   initial_attr, acqAttr, closes, exc, pc, q, w, gs, qc, calls, out,
                   ret>>

----------------------------------------------------------------------------
(***************************************************************************)
(* TerminalContext.query and TerminalContext.read                          *)
(***************************************************************************)
\* line 79: the fixed chunk size of the read in query
ChunkSize == 1024

\* the call starts: the arguments are bound, nothing has run
StartCall(op, caller, req, timeout, amount, term) ==
    /\ q' = [op |-> op, caller |-> caller, req |-> req, timeout |-> timeout,
             amount |-> amount, term |-> term, can_read |-> <<>>,
             preAttr |-> <<devAttr>>, preCb |-> is_cbreak, preDepth |-> Len(stack)]
    /\ pc' = "q_enter"
    /\ calls' = <<>>
    /\ out' = <<>>
    /\ ret' = <<>>

\* t.query(s) with the default timeout, s drawn from S, against a terminal
\* that answers from T
query_call(S, T) ==
    /\ Ready /\ constructed /\ Len(stack) < MaxDepth
    /\ \E s \in S : StartCall("query", "user", to_bytes(s), "finite", ChunkSize, T)
    /\ UNCHANGED <<reuse, undone, qc, fdKind, fdOpen, devAttr, constructed, via,
                   close_fd, is_cbreak, initial_attr, acqAttr, closes, stack, exc, w,
                   gs>>

query == query_call(CoreRequests, CoreTerm)

\* t.read(amount, timeout)
read_call(T) ==
    /\ Ready /\ constructed /\ Len(stack) < MaxDepth
    /\ \E amount \in {1, ChunkSize}, timeout \in {"none", "finite"} :
          StartCall("read", "user", <<>>, timeout, amount, T)
    /\ UNCHANGED <<reuse, undone, qc, fdKind, fdOpen, devAttr, constructed, via,
                   close_fd, is_cbreak, initial_attr, acqAttr, closes, stack, exc, w,
                   gs>>

read == read_call(CoreTerm)

\* os.write(fd, data) accepts a non-empty prefix of non-empty data
Accepts(data) == IF data = <<>> THEN {0} ELSE 1..Len(data)

\* line 77: the bytes of the request query has written when it goes on to wait
query_written(data, n) == SubSeq(data, 1, n)

\* line 77: one os.write of the request
query_write ==
    /\ pc = "q_write"
    /\ IF fdOpen
       THEN /\ \E n \in Accepts(q.req) : out' = out \o query_written(q.req, n)
            /\ pc' = "q_select"
            /\ exc' = exc
       ELSE /\ exc' = "Error"
            /\ pc' = "q_exit"
            /\ out' = out
    /\ calls' = Log(<<"write">>)
    /\ UNCHANGED <<reuse, undone, qc, fdKind, fdOpen, devAttr, constructed, via,
                   close_fd, is_cbreak, initial_attr, acqAttr, closes, stack, q, w,
                   gs, ret>>

\* lines 78 and 127: select([fd], [], [], timeout); with timeout None it
\* returns only when the descriptor is readable
select_outcomes == IF q.timeout = "none" THEN {TRUE} ELSE BOOLEAN

\* the read made whatever select reported
reads_after_always(can_read) == TRUE

\* lines 79 and 128: os.read is called only if select reported readiness
reads_after(can_read) == can_read

\* lines 78-79 and 127-128: without readiness the result is b''
query_select ==
    /\ pc = "q_select"
    /\ IF fdOpen
       THEN /\ \E r \in select_outcomes :
                /\ q' = [q EXCEPT !.can_read = <<r>>]
                /\ pc' = IF reads_after(r) THEN "q_read" ELSE "q_exit"
                /\ ret' = IF reads_after(r) THEN ret ELSE << <<>> >>
            /\ exc' = exc
       ELSE /\ exc' = "Error"
            /\ pc' = "q_exit"
            /\ UNCHANGED <<q, gs, ret>>
    /\ calls' = Log(<<"select">>)
    /\ UNCHANGED <<reuse, undone, qc, fdKind, fdOpen, devAttr, constructed, via,
                   close_fd, is_cbreak, initial_attr, acqAttr, closes, stack, w, gs,
                   out>>

\* lines 79 and 128: one os.read of at most `amount` bytes
query_read ==
    /\ pc = "q_read"
    /\ \E i \in q.term : ret' = <<Take(i, q.amount)>>
    /\ pc' = "q_exit"
    /\ calls' = Log(<<"read">>)
    /\ UNCHANGED <<reuse, undone, qc, fdKind, fdOpen, devAttr, constructed, via,
                   close_fd, is_cbreak, initial_attr, acqAttr, closes, stack, exc, q,
                   w, gs, out>>

\* an exception inside the with-body of query or read (a signal's
\* KeyboardInterrupt, an I/O error of write, select or read)
query_raise ==
    /\ pc \in {"q_write", "q_select", "q_read"}
    /\ exc' = "Error"
    /\ pc' = "q_exit"
    /\ ret' = <<>>
    /\ UNCHANGED <<reuse, undone, qc, fdKind, fdOpen, devAttr, constructed, via,
                   close_fd, is_cbreak, initial_attr, acqAttr, closes, stack, q, w,
                   gs, calls, out>>

----------------------------------------------------------------------------
(***************************************************************************)
(* TerminalContext.write: no cbreak scope, a loop of os.write calls.       *)
(***************************************************************************)
\* line 116: the loop runs while the last os.write accepted something
write_continues(sent) == sent # 0

\* the pending slice cut one byte too far
write_rest_skip(data, sent) == SubSeq(data, sent + 2, Len(data))

\* line 117: the pending slice after `sent` bytes were accepted
write_rest(data, sent) == SubSeq(data, sent + 1, Len(data))

\* what one os.write(fd, data) that accepts n bytes transmits
transmitted(data, n) == SubSeq(data, 1, n)

\* lines 114-115: the payload, drawn from S, is encoded and written once
write_call(S) ==
    /\ Ready /\ constructed
    /\ \E s \in S :
        LET data == to_bytes(s)
        IN  IF fdOpen
            THEN \E n \in Accepts(data) :
                    /\ w' = [payload |-> data, data |-> data, sent |-> n]
                    /\ out' = transmitted(data, n)
                    /\ pc' = "w_loop"
                    /\ exc' = exc
            ELSE /\ w' = [payload |-> data, data |-> data, sent |-> 0]
                 /\ out' = <<>>
                 /\ pc' = "w_ret"
                 /\ exc' = "Error"
    /\ calls' = <<"write">>
    /\ ret' = <<>>
    /\ UNCHANGED <<reuse, undone, qc, fdKind, fdOpen, devAttr, constructed, via,
                   close_fd, is_cbreak, initial_attr, acqAttr, closes, stack, q, gs>>

write == write_call(CoreRequests)

write_payload == write_call(Payloads)

\* lines 116-118: one iteration of the loop
write_step ==
    /\ pc = "w_loop" /\ write_continues(w.sent)
    /\ LET data == write_rest(w.data, w.sent)
       IN  \E n \in Accepts(data) :
              /\ w' = [w EXCEPT !.data = data, !.sent = n]
              /\ out' = out \o transmitted(data, n)
    /\ calls' = Log(<<"write">>)
    /\ UNCHANGED <<reuse, undone, qc, fdKind, fdOpen, devAttr, constructed, via,
                   close_fd, is_cbreak, initial_attr, acqAttr, closes, stack, exc, pc,
                   q, gs, ret>>

\* line 116: the loop ends and write returns None
write_return ==
    /\ pc = "w_loop" /\ ~write_continues(w.sent)
    /\ pc' = "w_ret"
    /\ UNCHANGED <<reuse, undone, qc, fdKind, fdOpen, devAttr, constructed, via,
                   close_fd, is_cbreak, initial_attr, acqAttr, closes, stack, exc, q,
                   w, gs, calls, out, ret>>

----------------------------------------------------------------------------
(***************************************************************************)
(* Byte-string operations used by the reply parsers.                       *)
(***************************************************************************)
ESC == 27
LBRACKET == 91
SEMICOLON == 59
LOWER_T == 116
DIGIT_0 == 48
DIGIT_1 == 49
DIGIT_4 == 52
DIGIT_8 == 56
MINUS == 45
PLUS == 43
UNDERSCORE == 95
SPACE == 32

startswith(s, p) == Len(s) >= Len(p) /\ SubSeq(s, 1, Len(p)) = p

endswith(s, p) == Len(s) >= Len(p) /\ SubSeq(s, Len(s) - Len(p) + 1, Len(s)) = p

\* bytes.split(sep) for a one-byte separator: the fields between the
\* separators, empty fields kept
RECURSIVE split(_, _)
split(s, sep) ==
    IF \A i \in 1..Len(s) : s[i] # sep THEN <<s>>
    ELSE LET k == CHOOSE i \in 1..Len(s) :
                     s[i] = sep /\ \A j \in 1..(i - 1) : s[j] # sep
         IN  <<SubSeq(s, 1, k - 1)>> \o split(SubSeq(s, k + 1, Len(s)), sep)

IsDigit(c) == c >= DIGIT_0 /\ c <= DIGIT_0 + 9

\* whitespace for bytes.strip(): space, \t \n \v \f \r
IsSpace(c) == c = SPACE \/ (c >= 9 /\ c <= 13)

RECURSIVE lstrip(_)
lstrip(s) == IF s # <<>> /\ IsSpace(Head(s)) THEN lstrip(Tail(s)) ELSE s

RECURSIVE rstrip(_)
rstrip(s) ==
    IF s # <<>> /\ IsSpace(s[Len(s)]) THEN rstrip(SubSeq(s, 1, Len(s) - 1)) ELSE s

\* the digits of an int literal: digits, with single underscores between them
IsDigits(d) ==
    /\ d # <<>>
    /\ IsDigit(d[1]) /\ IsDigit(d[Len(d)])
    /\ \A i \in 1..Len(d) : IsDigit(d[i]) \/ d[i] = UNDERSCORE
    /\ \A i \in 1..(Len(d) - 1) : ~(d[i] = UNDERSCORE /\ d[i + 1] = UNDERSCORE)

RECURSIVE digits_value(_, _)
digits_value(d, acc) ==
    IF d = <<>> THEN acc
    ELSE IF Head(d) = UNDERSCORE THEN digits_value(Tail(d), acc)
    ELSE digits_value(Tail(d), 10 * acc + (Head(d) - DIGIT_0))

\* int(v) for bytes v: <<n>>, or <<>> where int raises ValueError.
\* Surrounding whitespace, one sign and underscores between digits are legal.
int(v) ==
    LET t == rstrip(lstrip(v))
        signed == t # <<>> /\ Head(t) \in {MINUS, PLUS}
        d == IF signed THEN Tail(t) ELSE t
    IN  IF ~IsDigits(d) THEN <<>>
        ELSE IF signed /\ Head(t) = MINUS THEN <<0 - digits_value(d, 0)>>
        ELSE <<digits_value(d, 0)>>

\* the decimal digits of n >= 0, as the terminal prints a number
RECURSIVE decimal(_)
decimal(n) ==
    IF n < 10 THEN <<DIGIT_0 + n>> ELSE decimal(n \div 10) \o <<DIGIT_0 + (n % 10)>>

\* '\x1b[18t' and '\x1b[14t', text that query encodes
CSI18T == [type |-> "str", val |-> <<ESC, LBRACKET, DIGIT_1, DIGIT_8, LOWER_T>>]

CSI14T == [type |-> "str", val |-> <<ESC, LBRACKET, DIGIT_1, DIGIT_4, LOWER_T>>]

\* b'\x1b[8;' and b'\x1b[4;'
Prefix8 == <<ESC, LBRACKET, DIGIT_8, SEMICOLON>>

Prefix4 == <<ESC, LBRACKET, DIGIT_4, SEMICOLON>>

\* the terminal's report ESC [ code ; a ; b t
SizeReply(prefix, a, b) ==
    prefix \o decimal(a) \o <<SEMICOLON>> \o decimal(b) \o <<LOWER_T>>

\* a parser that takes the first two fields and ignores further ones
parse_report_first_two(report, prefix) ==
    IF startswith(report, prefix) /\ endswith(report, <<LOWER_T>>)
    THEN LET fields == split(SubSeq(report, 5, Len(report) - 1), SEMICOLON)
         IN  IF Len(fields) >= 2 /\ int(fields[1]) # <<>> /\ int(fields[2]) # <<>>
             THEN <<int(fields[1])[1], int(fields[2])[1]>>
             ELSE <<>>
    ELSE <<>>

\* lines 96-98 and 103-105: the two integers of a report with this prefix,
\* <<first, second>>, or <<>> when the report is not accepted (the names
\* keep their values)
parse_report(report, prefix) ==
    IF startswith(report, prefix) /\ endswith(report, <<LOWER_T>>)
    THEN LET fields == split(SubSeq(report, 5, Len(report) - 1), SEMICOLON)
         IN  IF Len(fields) = 2 /\ int(fields[1]) # <<>> /\ int(fields[2]) # <<>>
             THEN <<int(fields[1])[1], int(fields[2])[1]>>
             ELSE <<>>
    ELSE <<>>

----------------------------------------------------------------------------
(***************************************************************************)
(* TerminalContext.get_size                                                *)
(***************************************************************************)
MaxDim == 12

Dims == {0, 1, MaxDim}

\* what ioctl(TIOCGWINSZ) gives: <<>> when it raises, else <<winsize>>
Winsizes ==
    {<<>>} \cup {<<ws>> : ws \in [ws_row : Dims, ws_col : Dims,
                                  ws_xpixel : Dims, ws_ypixel : Dims]}

CoreWinsizes ==
    {<<>>, <<[ws_row |-> MaxDim, ws_col |-> 1, ws_xpixel |-> 1, ws_ypixel |-> MaxDim]>>}

\* what a terminal may answer while get_size is waiting: nothing, the two
\* reports, and reports that are cut, overlong or not numbers
SizeReplies ==
    {SizeReply(p, a, b) : p \in {Prefix8, Prefix4}, a \in {1, MaxDim}, b \in {0, 1, MaxDim}}
    \cup {<<>>,
          Prefix8 \o decimal(MaxDim) \o <<LOWER_T>>,
          Prefix4 \o decimal(1) \o <<SEMICOLON>> \o decimal(1)
                  \o <<SEMICOLON>> \o decimal(1) \o <<LOWER_T>>,
          Prefix8 \o <<SEMICOLON, LOWER_T>>,
          Prefix4 \o decimal(MaxDim) \o <<SEMICOLON>> \o decimal(1),
          Prefix8 \o <<97>> \o <<SEMICOLON>> \o decimal(1) \o <<LOWER_T>>,
          Prefix4 \o <<MINUS>> \o decimal(1) \o <<SEMICOLON>> \o decimal(1) \o <<LOWER_T>>}

G0 == [rows |-> 0, cols |-> 0, xpixel |-> 0, ypixel |-> 0, io |-> <<>>,
       asked |-> <<>>, report18 |-> <<>>, report14 |-> <<>>, term |-> {}]

\* line 91: the names the four unpacked values are bound to
unpack(ws) ==
    [rows |-> ws.ws_row, cols |-> ws.ws_col, xpixel |-> ws.ws_xpixel, ypixel |-> ws.ws_ypixel]

\* line 94
needs18(g) == g.rows = 0 \/ g.cols = 0

\* the pixel query asked only when both pixel values are missing
needs14_both(g) == g.xpixel = 0 /\ g.ypixel = 0

\* line 101
needs14(g) == g.xpixel = 0 \/ g.ypixel = 0

\* line 98: rows, cols = the two integers of the report
assign18(g, pair) == [g EXCEPT !.rows = pair[1], !.cols = pair[2]]

\* line 105: ypixel, xpixel = the two integers of the report
assign14(g, pair) == [g EXCEPT !.ypixel = pair[1], !.xpixel = pair[2]]

\* the result in the order of the ioctl
size_result_unswapped(g) == <<g.rows, g.cols, g.xpixel, g.ypixel>>

\* line 108
size_result(g) == <<g.cols, g.rows, g.xpixel, g.ypixel>>

\* lines 88-93: the ioctl, whose failure is swallowed; the result is drawn
\* from W, the terminal answers from T
get_size_call(W, T) ==
    /\ Ready /\ constructed /\ Len(stack) < MaxDepth
    /\ \E io \in (IF fdOpen THEN W ELSE {<<>>}) :
          gs' = IF io = <<>>
                THEN [G0 EXCEPT !.term = T]
                ELSE [(unpack(io[1]) @@ G0) EXCEPT !.io = io, !.term = T]
    /\ pc' = "gs_94"
    /\ calls' = <<"ioctl">>
    /\ out' = <<>>
    /\ ret' = <<>>
    /\ UNCHANGED <<reuse, undone, qc, fdKind, fdOpen, devAttr, constructed, via,
                   close_fd, is_cbreak, initial_attr, acqAttr, closes, stack, exc, q,
                   w>>

get_size == get_size_call(CoreWinsizes, CoreTerm)

get_size_any == get_size_call(Winsizes, SizeReplies)

\* lines 94-95
gs_query18 ==
    /\ pc = "gs_94"
    /\ IF needs18(gs)
       THEN /\ StartCall("query", "gs18", to_bytes(CSI18T), "finite", ChunkSize, gs.term)
            /\ gs' = [gs EXCEPT !.asked = Append(@, "18t")]
       ELSE /\ pc' = "gs_101"
            /\ UNCHANGED <<q, gs, calls, out, ret>>
    /\ UNCHANGED <<reuse, undone, qc, fdKind, fdOpen, devAttr, constructed, via,
                   close_fd, is_cbreak, initial_attr, acqAttr, closes, stack, exc, w>>

\* lines 96-100
gs_parse18 ==
    /\ pc = "q_ret" /\ q.caller = "gs18" /\ exc = "none"
    /\ LET pair == parse_report(ret[1], Prefix8)
       IN  gs' = [(IF pair = <<>> THEN gs ELSE assign18(gs, pair))
                    EXCEPT !.report18 = ret]
    /\ pc' = "gs_101"
    /\ q' = Q0
    /\ ret' = <<>>
    /\ UNCHANGED <<reuse, undone, qc, fdKind, fdOpen, devAttr, constructed, via,
                   close_fd, is_cbreak, initial_attr, acqAttr, closes, stack, exc, w,
                   calls, out>>

\* lines 101-102, and line 108 when no pixel query is needed
gs_query14 ==
    /\ pc = "gs_101"
    /\ IF needs14(gs)
       THEN /\ StartCall("query", "gs14", to_bytes(CSI14T), "finite", ChunkSize, gs.term)
            /\ gs' = [gs EXCEPT !.asked = Append(@, "14t")]
       ELSE /\ pc' = "gs_ret"
            /\ ret' = <<size_result(gs)>>
            /\ UNCHANGED <<q, gs, calls, out>>
    /\ UNCHANGED <<reuse, undone, qc, fdKind, fdOpen, devAttr, constructed, via,
                   close_fd, is_cbreak, initial_attr, acqAttr, closes, stack, exc, w>>

\* lines 103-108
gs_parse14 ==
    /\ pc = "q_ret" /\ q.caller = "gs14" /\ exc = "none"
    /\ LET pair == parse_report(ret[1], Prefix4)
           g == [(IF pair = <<>> THEN gs ELSE assign14(gs, pair))
                    EXCEPT !.report14 = ret]
       IN  /\ gs' = g
           /\ ret' = <<size_result(g)>>
    /\ pc' = "gs_ret"
    /\ q' = Q0
    /\ UNCHANGED <<reuse, undone, qc, fdKind, fdOpen, devAttr, constructed, via,
                   close_fd, is_cbreak, initial_attr, acqAttr, closes, stack, exc, w,
                   calls, out>>

\* the call has returned, by value or by exception, and the caller goes on
Resume ==
    /\ \/ pc = "q_ret" /\ (q.caller = "user" \/ exc # "none")
       \/ pc = "w_ret"
       \/ pc = "gs_ret"
       \/ pc = "qc_ret"
    /\ pc' = "idle"
    /\ q' = Q0
    /\ w' = W0
    /\ gs' = G0
    /\ qc' = [QC0 EXCEPT !.late = qc.late]
    /\ calls' = <<>>
    /\ out' = <<>>
    /\ ret' = <<>>
    /\ UNCHANGED <<reuse, undone, fdKind, fdOpen, devAttr, constructed, via, close_fd,
                   is_cbreak, initial_attr, acqAttr, closes, stack, exc>>

----------------------------------------------------------------------------
(***************************************************************************)
(* TerminalContext.query_color.  Text is a sequence of code points; the    *)
(* request and the reply are ASCII.                                        *)
(***************************************************************************)
RBRACKET == 93
BACKSLASH == 92
BEL == 7
QUESTION == 63
COLON == 58
SLASH == 47
HASH == 35
LOWER_A == 97
LOWER_F == 102
LOWER_X == 120
UPPER_A == 65
UPPER_F == 70
UPPER_X == 88

\* 'fg', 'bg', and the palette indices '1' and '2'
SlotFg == <<102, 103>>

SlotBg == <<98, 103>>

Slots == {SlotFg, SlotBg, <<DIGIT_1>>, <<DIGIT_1 + 1>>}

\* line 135: 10 if slot == 'fg' else 11 if slot == 'bg' else f'4;{slot}',
\* as it is formatted into the request
value(slot) ==
    IF slot = SlotFg THEN <<DIGIT_1, DIGIT_0>>
    ELSE IF slot = SlotBg THEN <<DIGIT_1, DIGIT_1>>
    ELSE <<DIGIT_4, SEMICOLON>> \o slot

\* line 136: f'\x1b]{value};?\x1b\\'
color_request(slot) ==
    [type |-> "str",
     val |-> <<ESC, RBRACKET>> \o value(slot) \o <<SEMICOLON, QUESTION, ESC, BACKSLASH>>]

\* line 138: 2 if slot in ('fg', 'bg') else len(f'4;{slot}')
offset(slot) == IF slot \in {SlotFg, SlotBg} THEN 2 ELSE 2 + Len(slot)

\* bytes.rstrip(chars): trailing bytes that are in the set chars are removed
RECURSIVE rstrip_chars(_, _)
rstrip_chars(s, chars) ==
    IF s # <<>> /\ s[Len(s)] \in chars
    THEN rstrip_chars(SubSeq(s, 1, Len(s) - 1), chars)
    ELSE s

IsHexDigit(c) ==
    \/ IsDigit(c)
    \/ (c >= LOWER_A /\ c <= LOWER_F)
    \/ (c >= UPPER_A /\ c <= UPPER_F)

hex_digit_value(c) ==
    IF IsDigit(c) THEN c - DIGIT_0
    ELSE IF c >= LOWER_A THEN c - LOWER_A + 10
    ELSE c - UPPER_A + 10

\* the digits of a base-16 literal: hex digits, single underscores between
IsHexDigits(d) ==
    /\ d # <<>>
    /\ IsHexDigit(d[1]) /\ IsHexDigit(d[Len(d)])
    /\ \A i \in 1..Len(d) : IsHexDigit(d[i]) \/ d[i] = UNDERSCORE
    /\ \A i \in 1..(Len(d) - 1) : ~(d[i] = UNDERSCORE /\ d[i + 1] = UNDERSCORE)

RECURSIVE hex_value(_, _)
hex_value(d, acc) ==
    IF d = <<>> THEN acc
    ELSE IF Head(d) = UNDERSCORE THEN hex_value(Tail(d), acc)
    ELSE hex_value(Tail(d), 16 * acc + hex_digit_value(Head(d)))

\* int(v, 16) for bytes v: <<n>>, or <<>> where int raises ValueError.
\* Surrounding whitespace, one sign, a 0x or 0X prefix (an underscore may
\* follow it) and underscores between digits are legal.
int16(v) ==
    LET t == rstrip(lstrip(v))
        signed == t # <<>> /\ Head(t) \in {MINUS, PLUS}
        u == IF signed THEN Tail(t) ELSE t
        prefixed == Len(u) >= 2 /\ u[1] = DIGIT_0 /\ u[2] \in {LOWER_X, UPPER_X}
        p == IF prefixed THEN SubSeq(u, 3, Len(u)) ELSE u
        d == IF prefixed /\ p # <<>> /\ Head(p) = UNDERSCORE THEN Tail(p) ELSE p
    IN  IF ~IsHexDigits(d) THEN <<>>
        ELSE IF signed /\ Head(t) = MINUS THEN <<0 - hex_value(d, 0)>>
        ELSE <<hex_value(d, 0)>>

\* n >> 8 for a Python int: the floor of n / 256
shift8(n) == IF n >= 0 THEN n \div 256 ELSE 0 - ((255 - n) \div 256)

RECURSIVE hex_digits(_)
hex_digits(n) ==
    LET c == IF n % 16 < 10 THEN DIGIT_0 + (n % 16) ELSE LOWER_A + (n % 16) - 10
    IN  IF n < 16 THEN <<c>> ELSE hex_digits(n \div 16) \o <<c>>

\* hex(n): '0x..', and '-0x..' for a negative n
hex(n) ==
    IF n >= 0 THEN <<DIGIT_0, LOWER_X>> \o hex_digits(n)
    ELSE <<MINUS, DIGIT_0, LOWER_X>> \o hex_digits(0 - n)

\* str.zfill(2): zeros in front up to two characters, after a leading sign
zfill2(s) ==
    IF Len(s) >= 2 THEN s
    ELSE IF s # <<>> /\ Head(s) \in {MINUS, PLUS} THEN <<Head(s), DIGIT_0>> \o Tail(s)
    ELSE IF Len(s) = 1 THEN <<DIGIT_0>> \o s
    ELSE <<DIGIT_0, DIGIT_0>>

\* line 142, one element: hex(int(v, 16) >> 8)[2:].zfill(2)
channel(v) ==
    LET h == hex(shift8(int16(v)[1]))
    IN  zfill2(SubSeq(h, 3, Len(h)))

\* b'rgb:'
RgbMarker == <<114, 103, 98, COLON>>

OscPrefix == <<ESC, RBRACKET>>

ST == <<ESC, BACKSLASH>>

ValueError == [kind |-> "ValueError", val |-> <<>>]

None == [kind |-> "None", val |-> <<>>]

\* line 139: report[3+offset:].rstrip(b'\x1b\\').rstrip(b'\x07')
color_spec(slot, report) ==
    rstrip_chars(rstrip_chars(SubSeq(report, 4 + offset(slot), Len(report)),
                              {ESC, BACKSLASH}),
                 {BEL})

\* lines 137-144: what query_color makes of the report: the color string,
\* None, or the ValueError that int or the unpacking of the list raises
parse_color(slot, report) ==
    IF /\ startswith(report, OscPrefix)
       /\ (endswith(report, ST) \/ endswith(report, <<BEL>>))
    THEN LET spec == color_spec(slot, report)
         IN  IF startswith(spec, RgbMarker)
             THEN LET vs == split(SubSeq(spec, 5, Len(spec)), SLASH)
                  IN  IF \E i \in 1..Len(vs) : int16(vs[i]) = <<>> THEN ValueError
                      ELSE IF Len(vs) # 3 THEN ValueError
                      ELSE [kind |-> "str",
                            val |-> <<HASH>> \o channel(vs[1]) \o channel(vs[2])
                                             \o channel(vs[3])]
             ELSE None
    ELSE None

\* a channel as the terminal prints it: four hex digits, more for a value
\* that does not fit
hex4(n) ==
    LET d == hex_digits(n)
    IN  IF Len(d) >= 4 THEN d ELSE SubSeq(<<DIGIT_0, DIGIT_0, DIGIT_0>>, 1, 4 - Len(d)) \o d

\* the terminal's report ESC ] code ; rgb:RRRR/GGGG/BBBB terminator
ColorReply(code, r, g, b, term) ==
    OscPrefix \o code \o <<SEMICOLON>> \o RgbMarker
        \o hex4(r) \o <<SLASH>> \o hex4(g) \o <<SLASH>> \o hex4(b) \o term

\* channel values a terminal reports: 16-bit ones, and one that needs a
\* fifth digit
Channels == {<<65298, 32820, 171>>, <<255, 0, 65535>>, <<1048575, 0, 0>>}

\* other things a terminal may put after the code: two channels, four
\* channels, a channel that is no number, a negative channel, another
\* marker, a body that ends in a backslash, nothing
OddBodies ==
    {RgbMarker \o hex4(65535) \o <<SLASH>> \o hex4(32768),
     RgbMarker \o hex4(1) \o <<SLASH>> \o hex4(2) \o <<SLASH>> \o hex4(3) \o <<SLASH>> \o hex4(4),
     RgbMarker \o <<103, 103>> \o <<SLASH>> \o hex4(0) \o <<SLASH>> \o hex4(0),
     RgbMarker \o <<MINUS>> \o hex4(65280) \o <<SLASH>> \o hex4(0) \o <<SLASH>> \o hex4(0),
     <<114, 103, 98, 97, COLON>> \o hex4(1) \o <<SLASH>> \o hex4(2) \o <<SLASH>> \o hex4(3),
     RgbMarker \o hex4(1) \o <<SLASH>> \o hex4(2) \o <<SLASH>> \o hex4(3) \o <<BACKSLASH>>,
     <<>>}

\* what may be read while query_color waits, when the terminal owes replies
\* for the slots S: the reports for these slots with either terminator, and
\* nothing, a report without terminator and a report of another kind
ColorReplies(S) ==
    {ColorReply(value(s), c[1], c[2], c[3], t) : s \in S, c \in Channels, t \in {ST, <<BEL>>}}
    \cup {OscPrefix \o value(s) \o <<SEMICOLON>> \o b \o t :
             s \in S, b \in OddBodies, t \in {ST, <<BEL>>}}
    \cup {<<>>,
          OscPrefix \o <<DIGIT_1, DIGIT_0, SEMICOLON>> \o RgbMarker,
          SizeReply(Prefix8, 1, 1)}

\* the slots whose report this is
carried(report) ==
    {s \in Slots : startswith(report, OscPrefix \o value(s) \o <<SEMICOLON>>)}

\* lines 135-136: t.query_color(slot).  The terminal answers a request once,
\* possibly after the call that made it has given up waiting.
query_color ==
    /\ Ready /\ constructed /\ Len(stack) < MaxDepth
    /\ \E slot \in Slots :
          /\ qc' = [qc EXCEPT !.slot = slot, !.report = <<>>]
          /\ StartCall("query", "qc", to_bytes(color_request(slot)), "finite",
                       ChunkSize, ColorReplies(qc.late \cup {slot}))
    /\ UNCHANGED <<reuse, undone, fdKind, fdOpen, devAttr, constructed, via, close_fd,
                   is_cbreak, initial_attr, acqAttr, closes, stack, exc, w, gs>>

\* lines 137-144: the report is parsed; a ValueError of line 142 propagates
qc_parse ==
    /\ pc = "q_ret" /\ q.caller = "qc" /\ exc = "none"
    /\ LET result == parse_color(qc.slot, ret[1])
       IN  /\ exc' = IF result = ValueError THEN "ValueError" ELSE exc
           /\ ret' = IF result = ValueError THEN <<>> ELSE <<result>>
    /\ qc' = [qc EXCEPT !.report = ret,
                        !.late = (@ \cup {qc.slot}) \ carried(ret[1])]
    /\ pc' = "qc_ret"
    /\ q' = Q0
    /\ UNCHANGED <<reuse, undone, fdKind, fdOpen, devAttr, constructed, via, close_fd,
                   is_cbreak, initial_attr, acqAttr, closes, stack, w, gs, calls,
                   out>>

----------------------------------------------------------------------------
\* no handle yet; the caller holds an open descriptor, a terminal or not
Init ==
    /\ fdKind \in {"tty", "file"}
    /\ fdOpen = TRUE
    /\ devAttr \in InitAttrs
    /\ constructed = FALSE
    /\ via = "none"
    /\ close_fd = FALSE
    /\ is_cbreak = FALSE
    /\ initial_attr = <<>>
    /\ acqAttr = <<>>
    /\ closes = 0
    /\ stack = <<>>
    /\ exc = "none"
    /\ pc = "idle"
    /\ q = Q0
    /\ w = W0
    /\ gs = G0
    /\ qc = QC0
    /\ undone = 0
    /\ reuse = R0
    /\ calls = <<>>
    /\ out = <<>>
    /\ ret = <<>>

Next ==
    \/ Construct
    \/ terminal_context_enter
    \/ cterminal_context_enter
    \/ close
    \/ context_exit
    \/ cbreak_mode_enter
    \/ cbreak_mode_exit
    \/ Raise
    \/ Catch
    \/ SetAttr
    \/ query
    \/ read
    \/ query_write
    \/ query_select
    \/ query_read
    \/ query_raise
    \/ write
    \/ write_step
    \/ write_return
    \/ get_size
    \/ gs_query18
    \/ gs_parse18
    \/ gs_query14
    \/ gs_parse14
    \/ Resume

Spec == Init /\ [][Next]_vars

----------------------------------------------------------------------------
(***************************************************************************)
(* Specifications of one method each, with wider inputs.  They start from  *)
(* the state after TerminalContext(fd) on a terminal.                      *)
(***************************************************************************)
InitLive ==
    /\ fdKind = "tty"
    /\ fdOpen = TRUE
    /\ devAttr \in InitAttrs
    /\ constructed = TRUE
    /\ via = "TerminalContext"
    /\ close_fd = FALSE
    /\ is_cbreak = FALSE
    /\ initial_attr = <<devAttr>>
    /\ acqAttr = <<devAttr>>
    /\ closes = 0
    /\ stack = <<>>
    /\ exc = "none"
    /\ pc = "idle"
    /\ q = Q0
    /\ w = W0
    /\ gs = G0
    /\ qc = QC0
    /\ undone = 0
    /\ reuse = R0
    /\ calls = <<"isatty", "tcgetattr">>
    /\ out = <<>>
    /\ ret = <<>>

\* write, for every payload up to MaxLen; each statement of the loop runs
\* once it is reached
NextWrite ==
    \/ write_payload
    \/ write_step
    \/ write_return
    \/ Resume

SpecWrite ==
    InitLive /\ [][NextWrite]_vars /\ WF_vars(write_step) /\ WF_vars(write_return)

\* get_size, for every ioctl result and every answer of SizeReplies; the
\* only cbreak scopes are those of its own queries
NextSize ==
    \/ get_size_any
    \/ gs_query18
    \/ gs_parse18
    \/ gs_query14
    \/ gs_parse14
    \/ (pc = "q_enter" /\ cbreak_mode_enter)
    \/ (pc = "q_exit" /\ cbreak_mode_exit)
    \/ query_write
    \/ query_select
    \/ query_read
    \/ query_raise
    \/ Resume

SpecSize == InitLive /\ [][NextSize]_vars

\* query_color, for every slot and every answer of ColorReplies; the only
\* cbreak scopes are those of its own queries
NextColor ==
    \/ query_color
    \/ qc_parse
    \/ (pc = "q_enter" /\ cbreak_mode_enter)
    \/ (pc = "q_exit" /\ cbreak_mode_exit)
    \/ query_write
    \/ query_select
    \/ query_read
    \/ query_raise
    \/ Catch
    \/ Resume

SpecColor == InitLive /\ [][NextColor]_vars

\* custom_state scopes, with the caller's own terminal states, cbreak
\* scopes and exceptions in their bodies
NextCustom ==
    \/ custom_state_enter
    \/ custom_state_exit
    \/ SetAttr
    \/ cbreak_mode_enter
    \/ cbreak_mode_exit
    \/ Raise
    \/ Catch

SpecCustom == InitLive /\ [][NextCustom]_vars

\* the life of a handle from construction over its close() calls, with the
\* released descriptor number given out again
NextClose ==
    \/ Construct
    \/ terminal_context_enter
    \/ cterminal_context_enter
    \/ SetAttr
    \/ Raise
    \/ Catch
    \/ close
    \/ context_exit
    \/ Reopen

SpecClose == Init /\ [][NextClose]_vars

----------------------------------------------------------------------------
(***************************************************************************)
(* Properties.                                                             *)
(***************************************************************************)
HasCall(name) == \E i \in 1..Len(calls) : calls[i] = name

\* a step that leaves a cbreak scope whose entry switched the device
LeavesOuter ==
    /\ stack # <<>> /\ Top.kind = "cbreak" /\ ~Top.noop
    /\ stack' = Pop

\* a step that leaves a cbreak scope whose entry found the flag set
LeavesInner ==
    /\ stack # <<>> /\ Top.kind = "cbreak" /\ Top.noop
    /\ stack' = Pop

\* a step that enters a cbreak scope
EntersCbreak ==
    /\ Len(stack') = Len(stack) + 1
    /\ stack'[Len(stack')].kind = "cbreak"

\* C1: the first close() of a handle, whatever cbreak scopes, query, read,
\* write and get_size calls came before it, sets the device to the attribute
\* set the device had at construction, and _initial_attr is never reassigned
\* once the constructor has set it.
C1_close_applies_initial ==
    [][/\ (constructed => initial_attr' = initial_attr /\ acqAttr' = acqAttr)
       /\ (closes = 0 /\ closes' = 1 => devAttr' = Head(acqAttr))]_vars

\* close() ran inside a cbreak scope whose snapshot differs from the
\* construction-time attributes, and the device has the latter
C1_witness ==
    /\ closes = 1 /\ stack # <<>>
    /\ Top.kind = "cbreak" /\ ~Top.noop
    /\ Top.tattr # acqAttr
    /\ devAttr = Head(acqAttr)

\* C2: whenever a cbreak scope that was entered with is_cbreak false is
\* left, by its body completing or returning or by an exception propagating,
\* the device gets the attributes it had at that entry and is_cbreak is
\* false afterwards.
C2_exit_restores_and_clears ==
    [][LeavesOuter =>
          /\ devAttr' = Head(Top.pre)
          /\ Top.tattr = Top.pre
          /\ is_cbreak' = FALSE]_vars

\* The part of C2 that holds: it is so for every such exit made while the
\* handle's descriptor is open.
C2_exit_restores_snapshot ==
    [][LeavesOuter /\ fdOpen =>
          /\ devAttr' = Head(Top.pre)
          /\ Top.tattr = Top.pre
          /\ is_cbreak' = FALSE]_vars

\* an exception has left a cbreak scope entered under a custom terminal
\* state: that state is back and the flag is clear
C2_witness ==
    /\ pc = "idle" /\ exc = "Error" /\ stack = <<>>
    /\ via = "TerminalContext" /\ closes = 0
    /\ ~is_cbreak
    /\ devAttr = Timed

\* C3, as stated: an entry made while is_cbreak is true takes no snapshot
\* and leaves the device and the flag alone; leaving that scope leaves them
\* alone too; leaving the scope whose entry switched the device restores the
\* attributes in effect just before that entry.
C3_nested_scopes_any_exit ==
    [][/\ (EntersCbreak /\ is_cbreak =>
              /\ stack'[Len(stack')].tattr = <<>>
              /\ devAttr' = devAttr
              /\ is_cbreak' = TRUE)
       /\ (LeavesInner => devAttr' = devAttr /\ is_cbreak' = is_cbreak)
       /\ (LeavesOuter => devAttr' = Head(Top.pre))]_vars

\* C3, amended: an entry made while is_cbreak is true takes no snapshot and
\* leaves the device and the flag alone; leaving that scope leaves them
\* alone too; leaving the scope whose entry switched the device, while the
\* handle's descriptor is open, restores the attributes in effect just
\* before that entry.
C3_nested_scopes ==
    [][/\ (EntersCbreak /\ is_cbreak =>
              /\ stack'[Len(stack')].tattr = <<>>
              /\ devAttr' = devAttr
              /\ is_cbreak' = TRUE)
       /\ (LeavesInner => devAttr' = devAttr /\ is_cbreak' = is_cbreak)
       /\ (LeavesOuter /\ fdOpen => devAttr' = Head(Top.pre))]_vars

\* an inner scope is open inside the scope that switched the device from a
\* custom state; the device is still in cbreak mode
C3_witness ==
    /\ Len(stack) >= 2
    /\ Top.kind = "cbreak" /\ Top.noop
    /\ stack[Len(stack) - 1].kind = "cbreak" /\ ~stack[Len(stack) - 1].noop
    /\ stack[Len(stack) - 1].pre = <<NoEcho>>
    /\ is_cbreak
    /\ devAttr = setcbreak(NoEcho)

\* a step that leaves the scope of terminal_context or cterminal_context
LeavesContext ==
    /\ stack # <<>> /\ Top.kind = "ctx"
    /\ stack' = Pop

\* C4: when the scope of terminal_context or cterminal_context is left,
\* normally or by an exception, and its body made no close() call of its
\* own, close() has been called exactly once, the device has the attributes
\* it had at acquisition, and the descriptor is closed if and only if the
\* handle owns it: closed for cterminal_context, open for terminal_context.
C4_context_closes_once ==
    [][LeavesContext /\ closes = 0 =>
          /\ closes' = 1
          /\ devAttr' = Head(acqAttr)
          /\ fdOpen' = ~close_fd
          /\ close_fd = (via = "cterminal_context")
          /\ exc' = exc]_vars

\* an exception has left the scope of cterminal_context
C4_witness ==
    /\ via = "cterminal_context" /\ stack = <<>>
    /\ exc = "Error" /\ closes = 1
    /\ ~fdOpen
    /\ devAttr = Head(acqAttr)

\* C5: when the readiness wait of query expires, query makes no read,
\* returns empty bytes and raises nothing, and when it has returned the
\* cbreak scope it opened is closed again.
C5_query_timeout ==
    (pc \in {"q_exit", "q_ret"} /\ q.op = "query" /\ q.can_read = <<FALSE>>) =>
        /\ ~HasCall("read")
        /\ ret = << <<>> >>
        /\ exc = "none"
        /\ (pc = "q_ret" =>
               /\ Len(stack) = q.preDepth
               /\ is_cbreak = q.preCb
               /\ <<devAttr>> = q.preAttr)

\* such a query, made outside any cbreak scope, has returned
C5_witness ==
    /\ pc = "q_ret" /\ q.op = "query" /\ q.caller = "user"
    /\ q.can_read = <<FALSE>>
    /\ ~q.preCb /\ ~is_cbreak
    /\ HasCall("select") /\ HasCall("tcsetattr")
    /\ ret = << <<>> >>

\* C6: when query starts to wait for the reply, all bytes of the request
\* have been transmitted.
C6_request_written_fully ==
    pc = "q_select" => out = q.req

\* C7: write ends, and when it has returned every byte of the payload has
\* been transmitted once and in order, the last os.write having been given
\* the empty slice.
C7_write_transmits_payload ==
    /\ [](pc = "w_ret" /\ exc = "none" =>
             out = w.payload /\ w.data = <<>> /\ w.sent = 0)
    /\ [](pc = "w_loop" => <>(pc = "w_ret"))

\* a payload of three bytes or more has been written in three pieces or more
C7_witness ==
    /\ pc = "w_ret" /\ exc = "none"
    /\ Len(w.payload) >= 3
    /\ Len(calls) >= 4
    /\ out = w.payload

\* C8: while the descriptor is not a terminal, every construction fails
\* with the precondition error, no attribute snapshot is taken (tcgetattr
\* is not called), no field of a handle is set and the device's attributes
\* stay as they are.
C8_non_terminal_rejected ==
    [][fdKind = "file" /\ fdKind' = "file" =>
          /\ ~constructed' /\ via' = "none"
          /\ initial_attr' = <<>>
          /\ (\A i \in 1..Len(calls') : calls'[i] # "tcgetattr")
          /\ devAttr' = devAttr
          /\ stack' = <<>>
          /\ (exc = "none" => exc' = "TypeError")]_vars

\* a construction on a descriptor that is not a terminal has failed
C8_witness ==
    /\ fdKind = "file" /\ exc = "TypeError"
    /\ calls = <<"isatty">>
    /\ ~constructed

Asked(x) == \E i \in 1..Len(gs.asked) : gs.asked[i] = x

\* the ioctl failed or left rows or cols at zero
IoctlLacksCells == gs.io = <<>> \/ gs.io[1].ws_row = 0 \/ gs.io[1].ws_col = 0

\* the ioctl failed or left xpixel or ypixel at zero
IoctlLacksPixels == gs.io = <<>> \/ gs.io[1].ws_xpixel = 0 \/ gs.io[1].ws_ypixel = 0

\* C9: get_size asks CSI 18 t only if the ioctl failed or left rows or cols
\* at zero, and CSI 14 t only if it failed or left xpixel or ypixel at zero;
\* when get_size returns it has asked each of them exactly in those cases,
\* CSI 18 t before CSI 14 t; the request bytes are ESC [ 1 8 t and
\* ESC [ 1 4 t; with four non-zero ioctl values nothing is asked and the
\* result is the ioctl's.
C9_fallbacks_when_needed ==
    /\ gs.asked \in {<<>>, <<"18t">>, <<"14t">>, <<"18t", "14t">>}
    /\ (Asked("18t") => IoctlLacksCells)
    /\ (Asked("14t") => IoctlLacksPixels)
    /\ (q.caller = "gs18" => q.req = <<27, 91, 49, 56, 116>>)
    /\ (q.caller = "gs14" => q.req = <<27, 91, 49, 52, 116>>)
    /\ (pc = "gs_ret" =>
           /\ (Asked("18t") <=> IoctlLacksCells)
           /\ (Asked("14t") <=> IoctlLacksPixels)
           /\ (gs.asked = <<>> =>
                  ret = << <<gs.io[1].ws_col, gs.io[1].ws_row,
                             gs.io[1].ws_xpixel, gs.io[1].ws_ypixel>> >>))

\* get_size has returned after the pixel query alone
C9_witness ==
    /\ pc = "gs_ret" /\ gs.asked = <<"14t">>
    /\ gs.io # <<>> /\ gs.io[1].ws_row # 0 /\ gs.io[1].ws_col # 0
    /\ gs.io[1].ws_ypixel = 0 /\ gs.io[1].ws_xpixel # 0

\* C10: the result of get_size is (cols, rows, xpixel, ypixel): a pair that
\* was not asked for is the ioctl's, with rows and cols swapped; a report
\* ESC [ 8 ; R ; C t to CSI 18 t gives rows = R and cols = C; a report
\* ESC [ 4 ; Y ; X t to CSI 14 t gives ypixel = Y and xpixel = X.
C10_result_order ==
    pc = "gs_ret" =>
        LET r == ret[1]
        IN  /\ (~Asked("18t") => r[1] = gs.io[1].ws_col /\ r[2] = gs.io[1].ws_row)
            /\ (~Asked("14t") => r[3] = gs.io[1].ws_xpixel /\ r[4] = gs.io[1].ws_ypixel)
            /\ \A a, b \in Dims :
                  /\ (gs.report18 = <<SizeReply(Prefix8, a, b)>> => r[2] = a /\ r[1] = b)
                  /\ (gs.report14 = <<SizeReply(Prefix4, a, b)>> => r[4] = a /\ r[3] = b)

\* both reports were parsed, with different numbers in each place
C10_witness ==
    /\ pc = "gs_ret"
    /\ gs.report18 = <<SizeReply(Prefix8, 1, MaxDim)>>
    /\ gs.report14 = <<SizeReply(Prefix4, MaxDim, 1)>>
    /\ ret = << <<MaxDim, 1, 1, MaxDim>> >>

\* what the ioctl gave for each name, zero where it failed
IoctlValue(name) == IF gs.io = <<>> THEN 0 ELSE gs.io[1][name]

\* the report has no byte, another prefix, no final t, a number of fields
\* other than two, an empty field or a byte no number has
Malformed(report, prefix) ==
    \/ report = <<>>
    \/ ~startswith(report, prefix)
    \/ ~endswith(report, <<LOWER_T>>)
    \/ LET body == SubSeq(report, 5, Len(report) - 1)
       IN  \/ Cardinality({i \in 1..Len(body) : body[i] = SEMICOLON}) # 1
           \/ body[1] = SEMICOLON \/ body[Len(body)] = SEMICOLON
           \/ \E i \in 1..Len(body) : ~IsDigit(body[i]) /\ body[i] \notin {SEMICOLON, MINUS}

\* C11, as stated: when get_size has returned and the reply to a fallback
\* query was absent or malformed, both values of that pair are zero.
C11_malformed_pair_zero ==
    pc = "gs_ret" =>
        /\ (Asked("18t") /\ Malformed(gs.report18[1], Prefix8) =>
               ret[1][1] = 0 /\ ret[1][2] = 0)
        /\ (Asked("14t") /\ Malformed(gs.report14[1], Prefix4) =>
               ret[1][3] = 0 /\ ret[1][4] = 0)

\* C11, amended: parsing a reply raises nothing; the pixel query is made
\* whatever the reply to the cell query was, with the pixel values still as
\* the ioctl gave them; and when get_size has returned and the reply to a
\* fallback query was absent or malformed, both values of that pair are as
\* the ioctl gave them: zero where the ioctl failed or gave zero.
C11_malformed_pair_kept ==
    /\ (pc \in {"gs_101", "gs_ret"} => exc = "none")
    /\ (pc = "gs_101" \/ q.caller = "gs14" =>
           gs.xpixel = IoctlValue("ws_xpixel") /\ gs.ypixel = IoctlValue("ws_ypixel"))
    /\ (pc = "gs_ret" =>
           /\ (Asked("14t") <=> IoctlLacksPixels)
           /\ (Asked("18t") /\ Malformed(gs.report18[1], Prefix8) =>
                  /\ ret[1][1] = IoctlValue("ws_col")
                  /\ ret[1][2] = IoctlValue("ws_row"))
           /\ (Asked("14t") /\ Malformed(gs.report14[1], Prefix4) =>
                  /\ ret[1][3] = IoctlValue("ws_xpixel")
                  /\ ret[1][4] = IoctlValue("ws_ypixel")))

\* the ioctl gave rows and xpixel only, the cell query timed out and the
\* pixel query got a report of three fields: rows and xpixel are kept
C11_witness ==
    /\ pc = "gs_ret"
    /\ gs.io = <<[ws_row |-> MaxDim, ws_col |-> 0, ws_xpixel |-> 1, ws_ypixel |-> 0]>>
    /\ gs.report18 = << <<>> >>
    /\ gs.report14 = <<Prefix4 \o decimal(1) \o <<SEMICOLON>> \o decimal(1)
                               \o <<SEMICOLON>> \o decimal(1) \o <<LOWER_T>>>>
    /\ ret = << <<0, MaxDim, 1, 0>> >>

\* what the query_color call that has returned gave: its value, or the
\* ValueError it raised
Outcome == IF exc = "ValueError" THEN ValueError ELSE ret[1]

\* C12: whatever the terminal sent (nothing, another prefix, no terminator,
\* no rgb: marker, fewer or more than three channels, a channel that is not
\* hexadecimal), query_color has returned a color string or None and has
\* not raised.
C12_query_color_never_raises ==
    pc = "qc_ret" => exc = "none" /\ ret[1].kind \in {"str", "None"}

IsLowerHex(c) == IsDigit(c) \/ (c >= LOWER_A /\ c <= LOWER_F)

\* the two lowercase hex digits of the high byte of a channel value
HighByte(n) == zfill2(hex_digits(n \div 256))

\* C13: a color that query_color returns has exactly 7 characters, '#' and
\* six lowercase hex digits, each pair being the high byte (the value
\* shifted right by 8 bits) of the channel of the report at that place.
C13_color_is_seven_chars ==
    pc = "qc_ret" /\ exc = "none" /\ ret[1].kind = "str" =>
        LET v == ret[1].val
        IN  /\ Len(v) = 7
            /\ v[1] = HASH
            /\ \A i \in 2..Len(v) : IsLowerHex(v[i])
            /\ \A c \in Channels, t \in {ST, <<BEL>>} :
                  qc.report = <<ColorReply(value(qc.slot), c[1], c[2], c[3], t)>> =>
                      v = <<HASH>> \o HighByte(c[1]) \o HighByte(c[2]) \o HighByte(c[3])

\* the report with its terminator exchanged for the other one
Twin(report) ==
    IF endswith(report, ST) THEN SubSeq(report, 1, Len(report) - 2) \o <<BEL>>
    ELSE IF endswith(report, <<BEL>>) THEN SubSeq(report, 1, Len(report) - 1) \o ST
    ELSE report

\* C14: what query_color made of a report that ends in ESC-backslash or in
\* BEL is what it makes of the same report ending in the other terminator.
C14_terminators_equivalent ==
    pc = "qc_ret" => Outcome = parse_color(qc.slot, Twin(qc.report[1]))

\* C17: query_color(slot) has returned a color only from a report that
\* carries the code of its own request: 10 for fg, 11 for bg, 4;N for the
\* palette index N.
C17_color_from_own_code ==
    pc = "qc_ret" /\ exc = "none" /\ ret[1].kind = "str" =>
        startswith(qc.report[1], OscPrefix \o value(qc.slot) \o <<SEMICOLON>>)

\* a step that leaves a custom_state scope
LeavesCustom ==
    /\ stack # <<>> /\ Top.kind = "custom"
    /\ stack' = Pop

\* C15: leaving a custom_state scope that was given an undo callback calls
\* the callback once, whether the body completed or raised, and the
\* exception goes on; no other step calls it, so it never runs before the
\* body has finished; leaving a scope without callback changes nothing but
\* the scope being closed.
C15_undo_once_at_exit ==
    [][/\ (LeavesCustom /\ Top.undo # <<>> =>
              /\ undone' = undone + 1
              /\ devAttr' = Head(Top.undo)
              /\ exc' = exc)
       /\ (LeavesCustom /\ Top.undo = <<>> =>
              UNCHANGED <<undone, devAttr, is_cbreak, fdOpen, exc, pc>>)
       /\ (~LeavesCustom => undone' = undone)]_vars

\* an exception has left a scope that was entered under a custom terminal
\* state: the callback has run once and that state is in effect
C15_witness ==
    /\ pc = "idle" /\ exc = "Error" /\ stack = <<>>
    /\ undone = 1
    /\ devAttr = NoEcho

\* the number of times the operation that is running has made this OS call
CallCount(name) == Cardinality({i \in 1..Len(calls) : calls[i] = name})

\* C16: while a query or read call is at its write, its readiness poll or
\* its read, is_cbreak is true; it reads the descriptor at most once; and
\* when it has returned, by value or by error, the device attributes and
\* is_cbreak are as they were just before the call, with no scope left open.
C16_call_frame ==
    /\ (pc \in {"q_write", "q_select", "q_read"} => is_cbreak)
    /\ (pc \in {"q_enter", "q_write", "q_select", "q_read", "q_exit", "q_ret"} =>
           CallCount("read") <= 1)
    /\ (pc = "q_ret" =>
           /\ <<devAttr>> = q.preAttr
           /\ is_cbreak = q.preCb
           /\ Len(stack) = q.preDepth)

\* a read made outside any cbreak scope, under a custom terminal state, has
\* ended by an error after its scope had switched the device: the custom
\* state is back and the flag is clear
C16_witness ==
    /\ pc = "q_ret" /\ q.op = "read" /\ exc = "Error"
    /\ ~q.preCb /\ ~is_cbreak
    /\ HasCall("setcbreak") /\ HasCall("select") /\ HasCall("tcsetattr")
    /\ devAttr = NoEcho

\* C18: the four values get_size has returned are non-negative integers,
\* whatever the ioctl gave and whatever the terminal answered to the
\* CSI 18 t and CSI 14 t queries.
C18_size_non_negative ==
    pc = "gs_ret" => \A i \in 1..4 : ret[1][i] \in Nat

\* C20: whenever no cbreak_mode scope is open on the handle, is_cbreak is
\* false, also after a scope whose entry or whose restoring exit failed.
C20_flag_clear_outside_scopes ==
    (\A i \in 1..Len(stack) : stack[i].kind # "cbreak") => ~is_cbreak

\* C19: a close() call made after the first one applies no attributes to,
\* and does not close, a file that the handle does not hold: no OS call of
\* close() has reached the file that got the released descriptor number.
C19_second_close_harmless ==
    reuse.hits = {}

====
